---- MODULE Spec2Model ----
(***************************************************************************)
(* The URL shortener of src/url-shortener: the in-memory ThreadSafeURLStore *)
(* (app/models.py) and the Flask handlers that drive it (app/main.py),      *)
(* run by several request threads.  A store method is a critical section   *)
(* of the store's lock; a handler is a sequence of store calls with the     *)
(* lock released in between.                                                *)
(***************************************************************************)
EXTENDS Integers, Sequences, FiniteSets, TLC

\* ------------------------------------------------------------------ bounds
\* requests the clients send in one run
MaxRequests == 4
\* the latest value datetime.utcnow() returns (the clock starts at 0)
MaxClock == 0
\* requests the clients send to the user service in one run
MaxUserRequests == 3
\* the ids the users table can hold
MaxUserId == 3

\* -------------------------------------------------------- program constants
max_attempts == 10
CODE_LENGTH == 6

\* the request threads of the server
Threads == {1, 2}

\* ------------------------------------------------------------- short codes
\* string.ascii_letters + string.digits
alphanumeric == {"a", "B", "7", "z"}

\* the symbols the generator draws from, cut to two of them
characters == <<"a", "B">>

\* generate_short_code(): the codes the generator is taken to draw, one per
\* symbol (the symbol repeated `length` times)
generate_short_code == {[i \in 1..CODE_LENGTH |-> characters[k]] : k \in DOMAIN characters}

Codes == generate_short_code
None == <<>>

isalnum(code) == \A i \in 1..Len(code) : code[i] \in alphanumeric

\* faulty variant: the length test left out
AlnumOfAnyLength(code) == code # None /\ isalnum(code)

is_valid_short_code(code) ==
    /\ code # None
    /\ Len(code) = CODE_LENGTH
    /\ isalnum(code)

\* path parameters a client may send: the generated codes and two malformed ones
PathCodes == Codes \cup {<<"a", "B", "7">>, <<"a", "B", "7", "-", "a", "B">>}

\* -------------------------------------------------------------------- URLs
Schemes == {"", "http://", "https://"}
\* the strings a client sends as 'url': a host with or without a scheme and
\* surrounding whitespace, the localhost host, and a blank string
RawURLs == [ws : BOOLEAN, scheme : Schemes, host : {"example.com"}]
           \cup {[ws |-> FALSE, scheme |-> "http://", host |-> "localhost"],
                 [ws |-> TRUE, scheme |-> "", host |-> ""]}
NoURL == [scheme |-> "", host |-> ""]

\* validate_url(url): (is_valid, normalized url).  strip() drops the
\* surrounding whitespace, a missing scheme becomes http://, an empty string
\* and the localhost domain are refused.
validate_url(raw) ==
    IF raw.scheme = "" /\ raw.host = "" THEN [is_valid |-> FALSE, result |-> NoURL]
    ELSE LET url == [scheme |-> IF raw.scheme = "" THEN "http://" ELSE raw.scheme,
                     host |-> raw.host]
         IN IF url.host = "" \/ url.host = "localhost"
            THEN [is_valid |-> FALSE, result |-> NoURL]
            ELSE [is_valid |-> TRUE, result |-> url]

URLs == {validate_url(r).result : r \in {x \in RawURLs : validate_url(x).is_valid}}

\* request bodies of POST /api/shorten: not JSON, the empty object, an object
\* without 'url', an object with a 'url'; and, sent as application/json, a
\* body that does not parse ("malformed") and a non-empty JSON array ("array")
NoRaw == [ws |-> FALSE, scheme |-> "", host |-> ""]
Bodies == [json : {TRUE}, data : {"url"}, url : RawURLs]
          \cup {[json |-> FALSE, data |-> "", url |-> NoRaw],
                [json |-> TRUE, data |-> "empty", url |-> NoRaw],
                [json |-> TRUE, data |-> "nourl", url |-> NoRaw],
                [json |-> TRUE, data |-> "malformed", url |-> NoRaw],
                [json |-> TRUE, data |-> "array", url |-> NoRaw]}

\* the bodies on which a statement of the handler raises before the URL is
\* validated: request.get_json() raises BadRequest on a body that does not
\* parse, data.get('url') raises AttributeError on a list
RaisingData == {"malformed", "array"}

\* ------------------------------------------------------------------- state
\* identities for the URLMapping objects alive at one time: one per code in
\* the index and one per handler still holding an object the index dropped
ObjIds == 1..(Cardinality(Codes) + Cardinality(Threads))
NoObj == 0
NoMapping == [original_url |-> NoURL, short_code |-> None, click_count |-> 0, created_at |-> 0]

VARIABLES
    heap,              \* the URLMapping objects: ObjIds -> URLMapping or NoMapping
    mappings,          \* url_store._mappings: short code -> object (NoObj: absent)
    reverse_mappings,  \* url_store._reverse_mappings: url -> short code (None: absent)
    lock,              \* url_store._lock: the owning thread, 0 when free
    now,               \* the last value datetime.utcnow() returned
    th,                \* each request thread: position and locals of its handler
    nreq,              \* requests started so far
    clicks302,         \* history: code -> GET /<code> answered 302 since the code's creation
    issued,            \* history: url -> codes handed out by answered 200/201 shorten requests
    overlapped,        \* history: url -> two shorten requests for it were in flight together
    stored,            \* history: code -> store_mapping calls that returned a record
    increments,        \* history: code -> increment_click_count calls that returned True
    everCleared        \* history: clear() has run

vars == <<heap, mappings, reverse_mappings, lock, now, th, nreq,
          clicks302, issued, overlapped, stored, increments, everCleared>>

\* the user-management service, the second program of the repository
VARIABLES
    users,             \* the users table: id -> row (NoRow: no such row)
    next_id,           \* the id AUTOINCREMENT gives the next row
    uth,               \* each request thread of the service: position and locals
    ureq               \* requests the service has started so far

uservars == <<users, next_id, uth, ureq>>

NoResp == [status |-> 0, short_code |-> None, original_url |-> NoURL, created_at |-> 0,
           click_count |-> 0, message |-> "", error |-> "", location |-> NoURL,
           attempts |-> 0, statistics |-> <<0, 0, <<0, 1>>>>]

Ready == [pc |-> "ready", kind |-> "", url |-> NoURL, code |-> None, attempt |-> 0,
          mapping |-> NoObj, target |-> NoObj, tmp |-> 0, ret |-> FALSE, seen |-> {},
          snapshot |-> 0, resp |-> NoResp]

Init ==
    /\ heap = [o \in ObjIds |-> NoMapping]
    /\ mappings = [c \in Codes |-> NoObj]
    /\ reverse_mappings = [u \in URLs |-> None]
    /\ lock = 0
    /\ now = 0
    /\ th = [t \in Threads |-> Ready]
    /\ nreq = 0
    /\ clicks302 = [c \in Codes |-> 0]
    /\ issued = [u \in URLs |-> {}]
    /\ overlapped = [u \in URLs |-> FALSE]
    /\ stored = [c \in Codes |-> 0]
    /\ increments = [c \in Codes |-> 0]
    /\ everCleared = FALSE

\* ---------------------------------------------------------------- helpers
Range(f) == {f[x] : x \in DOMAIN f}

\* the objects still referenced: by the forward index or by a handler's local
Referenced(m, thr) == (Range(m) \cup {thr[t].mapping : t \in Threads}
                                \cup {thr[t].target : t \in Threads}) \ {NoObj}

\* objects nothing refers to any more are dropped from the heap
Collect(h, m, thr) == [o \in ObjIds |-> IF o \in Referenced(m, thr) THEN h[o] ELSE NoMapping]

\* the object URLMapping(...) constructs: the first unused identity
NewObj == CHOOSE o \in ObjIds \ Referenced(mappings, th) :
              \A p \in ObjIds \ Referenced(mappings, th) : o <= p

\* faulty variant: the store methods run without taking the lock
Unlocked(t) == TRUE

\* with self._lock: an RLock is free or already owned by the caller
CanAcquire(t) == lock = 0 \/ lock = t

\* `short_code in self._mappings`
CodeTaken(m, short_code) == m[short_code] # NoObj

\* exists(short_code)
exists(short_code) == CodeTaken(mappings, short_code)

\* faulty variant: store_mapping without its own test of the code
CodeExistsUnchecked(short_code) == FALSE

\* store_mapping's own test under the lock, which raises ValueError
CodeExists(short_code) == CodeTaken(mappings, short_code)

\* faulty variant: an insert that drops the URL's older records
PutMappingByURL(m, short_code, obj, original_url) ==
    [c \in Codes |-> IF c = short_code THEN obj
                     ELSE IF m[c] # NoObj /\ heap[m[c]].original_url = original_url THEN NoObj
                     ELSE m[c]]

\* self._mappings[short_code] = mapping
PutMapping(m, short_code, obj, original_url) == [m EXCEPT ![short_code] = obj]

\* faulty variant: the reverse lookup never finds the URL
FindNothing(original_url) == None

\* self._reverse_mappings.get(original_url)
url_already_shortened(original_url) == reverse_mappings[original_url]

\* faulty variant: a loop without a bound, `while True`
LoopNeverExhausted(attempt) == FALSE

\* faulty variant: the loop bound off by one pass and more
LoopExhaustedLate(attempt) == attempt > max_attempts

\* for attempt in range(max_attempts): the pass numbered `attempt` (from 0)
\* was the last one
LoopExhausted(attempt) == attempt + 1 >= max_attempts

\* faulty variant: the increment adds two
IncrementedTwice(click_count) == click_count + 2

\* faulty variant: click_count =+ 1
AssignedOne(click_count) == 1

\* click_count += 1
Incremented(click_count) == click_count + 1

\* faulty variant: the lookup ignores its key and returns a stored record
GetAnyMapping(short_code) ==
    IF \E c \in DOMAIN mappings : mappings[c] # NoObj
    THEN mappings[CHOOSE c \in DOMAIN mappings : mappings[c] # NoObj]
    ELSE NoObj

\* self._mappings.get(short_code): None for a key the dict does not hold
get_mapping(short_code) ==
    IF short_code \in DOMAIN mappings THEN mappings[short_code] ELSE NoObj

\* faulty variant: increment_click_count answers True whatever it found
IncrementResultTrue(found) == TRUE

\* increment_click_count's result: True after the increment, False otherwise
IncrementResult(found) == found

\* faulty variant: the average without the test for an empty store
AverageUnguarded(total_clicks, total_urls) == <<total_clicks, total_urls>>

\* total_clicks / total_urls if total_urls > 0 else 0, kept as a fraction
\* (numerator, denominator), 0 as 0 / 1
average_clicks(total_clicks, total_urls) ==
    IF total_urls > 0 THEN <<total_clicks, total_urls>> ELSE <<0, 1>>

\* faulty variant: clear() that leaves the reverse index as it is
ReverseKept(r) == r

\* self._reverse_mappings.clear()
ReverseCleared(r) == [u \in DOMAIN r |-> None]

InFlight(t) == th[t].pc # "ready"

\* a handler returns: its locals are gone, the answer stays until the thread's
\* next request (with the request's own url or path code, for the properties)
Respond(t, r) == [Ready EXCEPT !.kind = th[t].kind, !.url = th[t].url,
                               !.code = IF th[t].kind = "shorten" THEN None ELSE th[t].code,
                               !.seen = th[t].seen, !.resp = r]

Err(status, text) == [NoResp EXCEPT !.status = status, !.error = text]

\* ------------------------------------------------- POST /api/shorten
\* lines 44-69: the 400 answers, none of which reaches the store
ShortenReject(t, body) ==
    /\ th[t].pc = "ready"
    /\ nreq < MaxRequests
    /\ body.json => body.data \notin RaisingData
    /\ \/ ~body.json
       \/ body.data # "url"
       \/ ~validate_url(body.url).is_valid
    /\ LET text == IF ~body.json THEN "Content-Type must be application/json"
                   ELSE IF body.data = "empty" THEN "Invalid JSON data"
                   ELSE IF body.data = "nourl" THEN "Missing 'url' field in request body"
                   ELSE "Invalid URL"
       IN th' = [th EXCEPT ![t] = [Ready EXCEPT !.kind = "shorten", !.resp = Err(400, text)]]
    /\ nreq' = nreq + 1
    /\ UNCHANGED <<heap, mappings, reverse_mappings, lock, now,
                   clicks302, issued, overlapped, stored, increments, everCleared>>
    /\ UNCHANGED uservars

\* lines 51 and 58 raising, lines 117-121: the handler's `except Exception`
\* answers 500 "Internal server error"
ShortenRaise(t, body) ==
    /\ th[t].pc = "ready"
    /\ nreq < MaxRequests
    /\ body.json /\ body.data \in RaisingData
    /\ th' = [th EXCEPT ![t] = [Ready EXCEPT !.kind = "shorten",
                                  !.resp = Err(500, "Internal server error")]]
    /\ nreq' = nreq + 1
    /\ UNCHANGED <<heap, mappings, reverse_mappings, lock, now,
                   clicks302, issued, overlapped, stored, increments, everCleared>>
    /\ UNCHANGED uservars

\* lines 65-76: validate, normalize, url_store.url_already_shortened(normalized_url)
ShortenFind(t, body) ==
    /\ th[t].pc = "ready"
    /\ nreq < MaxRequests
    /\ body.json /\ body.data = "url" /\ validate_url(body.url).is_valid
    /\ CanAcquire(t)
    /\ LET normalized_url == validate_url(body.url).result
           existing_code == url_already_shortened(normalized_url)
       IN /\ th' = [th EXCEPT ![t] =
                     [Ready EXCEPT !.kind = "shorten", !.url = normalized_url,
                                   !.code = existing_code,
                                   !.seen = IF everCleared THEN {} ELSE issued[normalized_url],
                                   !.pc = IF existing_code # None THEN "get_existing"
                                          ELSE "generate"]]
          /\ overlapped' =
               IF everCleared THEN overlapped
               ELSE [overlapped EXCEPT ![normalized_url] =
                       @ \/ \E o \in Threads \ {t} :
                              InFlight(o) /\ th[o].kind = "shorten" /\ th[o].url = normalized_url]
    /\ nreq' = nreq + 1
    /\ UNCHANGED <<heap, mappings, reverse_mappings, lock, now, clicks302, issued, stored, increments, everCleared>>
    /\ UNCHANGED uservars

\* lines 77-84: get_mapping(existing_code) and the 200 answer; mapping is None
\* when the store was cleared in between, and mapping.created_at then raises
\* into the handler's `except Exception` (500)
ShortenExisting(t) ==
    /\ th[t].pc = "get_existing"
    /\ CanAcquire(t)
    /\ LET mapping == get_mapping(th[t].code)
           ok == mapping # NoObj
           r == IF ok
                THEN [NoResp EXCEPT !.status = 200, !.short_code = th[t].code,
                                    !.original_url = th[t].url,
                                    !.created_at = heap[mapping].created_at,
                                    !.message = "URL was already shortened"]
                ELSE Err(500, "Internal server error")
       IN /\ th' = [th EXCEPT ![t] = Respond(t, r)]
          /\ issued' = IF ok /\ ~everCleared
                       THEN [issued EXCEPT ![th[t].url] = @ \cup {th[t].code}]
                       ELSE issued
    /\ UNCHANGED <<heap, mappings, reverse_mappings, lock, now, nreq,
                   clicks302, overlapped, stored, increments, everCleared>>
    /\ UNCHANGED uservars

\* lines 86-97: one pass of the for loop, generate_short_code() and
\* url_store.exists(short_code); the for-else answers 500 after max_attempts
ShortenGenerate(t) ==
    /\ th[t].pc = "generate"
    /\ CanAcquire(t)
    /\ \E short_code \in generate_short_code :
         IF ~exists(short_code)
         THEN th' = [th EXCEPT ![t].pc = "store", ![t].code = short_code,
                               ![t].attempt = 0]   \* break: attempt is not read again
         ELSE IF ~LoopExhausted(th[t].attempt)
         THEN th' = [th EXCEPT ![t].attempt = @ + 1]
         ELSE th' = [th EXCEPT ![t] = Respond(t,
                       [Err(500, "Failed to generate unique short code. Please try again.")
                          EXCEPT !.attempts = th[t].attempt + 1])]
    /\ UNCHANGED <<heap, mappings, reverse_mappings, lock, now, nreq,
                   clicks302, issued, overlapped, stored, increments, everCleared>>
    /\ UNCHANGED uservars

\* store_mapping, models.py lines 49-60: take the lock, re-check the code,
\* raise ValueError (main.py lines 111-115: 500) or build the URLMapping and
\* put it into _mappings
ShortenStore(t) ==
    /\ th[t].pc = "store"
    /\ CanAcquire(t)
    /\ IF CodeExists(th[t].code)
       THEN /\ th' = [th EXCEPT ![t] = Respond(t,
                        [Err(500, "Failed to store URL mapping") EXCEPT !.short_code = th[t].code])]
            /\ UNCHANGED <<heap, mappings, lock, now, clicks302, stored, increments>>
       ELSE \E utcnow \in now..MaxClock :
            /\ now' = utcnow
            /\ heap' = [heap EXCEPT ![NewObj] =
                          [original_url |-> th[t].url, short_code |-> th[t].code,
                           click_count |-> 0, created_at |-> utcnow]]
            /\ mappings' = PutMapping(mappings, th[t].code, NewObj, th[t].url)
            /\ lock' = t
            /\ th' = [th EXCEPT ![t].pc = "store_reverse", ![t].mapping = NewObj]
            /\ clicks302' = [clicks302 EXCEPT ![th[t].code] = 0]
            /\ increments' = [increments EXCEPT ![th[t].code] = 0]
            /\ stored' = IF everCleared THEN stored
                         ELSE [stored EXCEPT ![th[t].code] = @ + 1]
    /\ UNCHANGED <<reverse_mappings, nreq, issued, overlapped, everCleared>>
    /\ UNCHANGED uservars

\* store_mapping, models.py lines 61-63, then main.py lines 102-109: the 201
ShortenStoreReverse(t) ==
    /\ th[t].pc = "store_reverse"
    /\ reverse_mappings' = [reverse_mappings EXCEPT ![th[t].url] = th[t].code]
    /\ lock' = 0
    /\ th' = [th EXCEPT ![t] = Respond(t,
                [NoResp EXCEPT !.status = 201, !.short_code = th[t].code,
                               !.original_url = th[t].url,
                               !.created_at = heap[th[t].mapping].created_at])]
    /\ issued' = IF everCleared THEN issued
                 ELSE [issued EXCEPT ![th[t].url] = @ \cup {th[t].code}]
    /\ UNCHANGED <<heap, mappings, now, nreq, clicks302, overlapped, stored, increments, everCleared>>
    /\ UNCHANGED uservars

\* ------------------------------------------------- GET /<short_code>
\* main.py lines 128-132: a malformed code is answered 404 before the store
RedirectReject(t, short_code) ==
    /\ th[t].pc = "ready"
    /\ nreq < MaxRequests
    /\ ~is_valid_short_code(short_code)
    /\ th' = [th EXCEPT ![t] = [Ready EXCEPT !.kind = "redirect", !.code = short_code,
                 !.resp = Err(404, "Invalid short code format. Must be 6 alphanumeric characters.")]]
    /\ nreq' = nreq + 1
    /\ UNCHANGED <<heap, mappings, reverse_mappings, lock, now,
                   clicks302, issued, overlapped, stored, increments, everCleared>>
    /\ UNCHANGED uservars

\* main.py lines 134-139: mapping = url_store.get_mapping(short_code), the
\* stored object itself
RedirectGet(t, short_code) ==
    /\ th[t].pc = "ready"
    /\ nreq < MaxRequests
    /\ is_valid_short_code(short_code)
    /\ CanAcquire(t)
    /\ LET mapping == get_mapping(short_code)
       IN th' = [th EXCEPT ![t] =
                   IF mapping = NoObj
                   THEN [Ready EXCEPT !.kind = "redirect", !.code = short_code,
                                      !.resp = Err(404, "Short code not found")]
                   ELSE [Ready EXCEPT !.kind = "redirect", !.code = short_code,
                                      !.mapping = mapping, !.pc = "increment",
                                      !.snapshot = heap[mapping].click_count]]
    /\ nreq' = nreq + 1
    /\ UNCHANGED <<heap, mappings, reverse_mappings, lock, now,
                   clicks302, issued, overlapped, stored, increments, everCleared>>
    /\ UNCHANGED uservars

\* increment_click_count, models.py lines 86-88: take the lock, test the
\* code, fetch the object and read its click_count (the read half of += 1);
\* lines 90: return False
RedirectIncrementRead(t) ==
    /\ th[t].pc = "increment"
    /\ CanAcquire(t)
    /\ IF CodeTaken(mappings, th[t].code)
       THEN /\ th' = [th EXCEPT ![t].pc = "increment_write",
                                ![t].target = mappings[th[t].code],
                                ![t].tmp = heap[mappings[th[t].code]].click_count]
            /\ lock' = t
       ELSE /\ th' = [th EXCEPT ![t].pc = "redirect", ![t].ret = IncrementResult(FALSE)]
            /\ UNCHANGED lock
    /\ UNCHANGED <<heap, mappings, reverse_mappings, now, nreq,
                   clicks302, issued, overlapped, stored, increments, everCleared>>
    /\ UNCHANGED uservars

\* increment_click_count, models.py lines 88-89: the write half of += 1,
\* return True, release the lock
RedirectIncrementWrite(t) ==
    /\ th[t].pc = "increment_write"
    /\ heap' = [heap EXCEPT ![th[t].target].click_count = Incremented(th[t].tmp)]
    /\ lock' = 0
    /\ th' = [th EXCEPT ![t].pc = "redirect", ![t].ret = IncrementResult(TRUE),
                        ![t].target = NoObj, ![t].tmp = 0]
    /\ increments' = IF everCleared THEN increments
                     ELSE [increments EXCEPT ![th[t].code] = @ + 1]
    /\ UNCHANGED <<mappings, reverse_mappings, now, nreq,
                   clicks302, issued, overlapped, stored, everCleared>>
    /\ UNCHANGED uservars

\* main.py lines 144-147: the log line reads mapping.click_count + 1 from the
\* object get_mapping returned, then redirect(mapping.original_url, code=302)
RedirectRespond(t) ==
    /\ th[t].pc = "redirect"
    /\ LET done == [th EXCEPT ![t] = Respond(t,
                      [NoResp EXCEPT !.status = 302,
                                     !.location = heap[th[t].mapping].original_url,
                                     !.click_count = heap[th[t].mapping].click_count + 1])]
       IN /\ th' = done
          /\ heap' = Collect(heap, mappings, done)
    /\ clicks302' = IF everCleared THEN clicks302
                    ELSE [clicks302 EXCEPT ![th[t].code] = @ + 1]
    /\ UNCHANGED <<mappings, reverse_mappings, lock, now, nreq, issued, overlapped, stored, increments, everCleared>>
    /\ UNCHANGED uservars

\* ------------------------------------------------- GET /api/stats/<short_code>
\* main.py lines 160-164
StatsReject(t, short_code) ==
    /\ th[t].pc = "ready"
    /\ nreq < MaxRequests
    /\ ~is_valid_short_code(short_code)
    /\ th' = [th EXCEPT ![t] = [Ready EXCEPT !.kind = "stats", !.code = short_code,
                 !.resp = Err(404, "Invalid short code format. Must be 6 alphanumeric characters.")]]
    /\ nreq' = nreq + 1
    /\ UNCHANGED <<heap, mappings, reverse_mappings, lock, now,
                   clicks302, issued, overlapped, stored, increments, everCleared>>
    /\ UNCHANGED uservars

\* main.py lines 166-171
StatsGet(t, short_code) ==
    /\ th[t].pc = "ready"
    /\ nreq < MaxRequests
    /\ is_valid_short_code(short_code)
    /\ CanAcquire(t)
    /\ LET mapping == get_mapping(short_code)
       IN th' = [th EXCEPT ![t] =
                   IF mapping = NoObj
                   THEN [Ready EXCEPT !.kind = "stats", !.code = short_code,
                                      !.resp = Err(404, "Short code not found")]
                   ELSE [Ready EXCEPT !.kind = "stats", !.code = short_code,
                                      !.mapping = mapping, !.pc = "stats",
                                      !.snapshot = heap[mapping].click_count]]
    /\ nreq' = nreq + 1
    /\ UNCHANGED <<heap, mappings, reverse_mappings, lock, now,
                   clicks302, issued, overlapped, stored, increments, everCleared>>
    /\ UNCHANGED uservars

\* faulty variant: building the stats answer counts as a click
ReadAndCount(h, obj) == [h EXCEPT ![obj].click_count = @ + 1]

\* main.py lines 174-180: the heap after the handler has read the fields of
\* the record (attribute reads only)
ReadRecord(h, obj) == h

\* main.py lines 174-180: the answer is built from the object's fields as
\* they are when jsonify reads them
StatsRespond(t) ==
    /\ th[t].pc = "stats"
    /\ LET done == [th EXCEPT ![t] = Respond(t,
                      [NoResp EXCEPT !.status = 200, !.short_code = th[t].code,
                                     !.original_url = heap[th[t].mapping].original_url,
                                     !.click_count = heap[th[t].mapping].click_count,
                                     !.created_at = heap[th[t].mapping].created_at])]
       IN /\ th' = done
          /\ heap' = Collect(ReadRecord(heap, th[t].mapping), mappings, done)
    /\ UNCHANGED <<mappings, reverse_mappings, lock, now, nreq,
                   clicks302, issued, overlapped, stored, increments, everCleared>>
    /\ UNCHANGED uservars

\* ------------------------------------------------- GET /api/health
RECURSIVE SumClicks(_, _)
\* sum(mapping.click_count for mapping in self._mappings.values())
SumClicks(m, codes) ==
    IF codes = {} THEN 0
    ELSE LET c == CHOOSE x \in codes : TRUE
         IN (IF m[c] = NoObj THEN 0 ELSE heap[m[c]].click_count) + SumClicks(m, codes \ {c})

\* get_stats, models.py lines 122-123: take the lock, total_urls = len(_mappings)
HealthLen(t) ==
    /\ th[t].pc = "ready"
    /\ nreq < MaxRequests
    /\ CanAcquire(t)
    /\ lock' = t
    /\ th' = [th EXCEPT ![t] = [Ready EXCEPT !.kind = "health", !.pc = "get_stats",
                                  !.tmp = Cardinality({c \in Codes : CodeTaken(mappings, c)})]]
    /\ nreq' = nreq + 1
    /\ UNCHANGED <<heap, mappings, reverse_mappings, now,
                   clicks302, issued, overlapped, stored, increments, everCleared>>
    /\ UNCHANGED uservars

\* get_stats, models.py lines 124-130, and main.py lines 34-38
HealthSum(t) ==
    /\ th[t].pc = "get_stats"
    /\ LET total_urls == th[t].tmp
           total_clicks == SumClicks(mappings, Codes)
       IN th' = [th EXCEPT ![t] = Respond(t,
                   [NoResp EXCEPT !.status = 200, !.message = "URL Shortener API is running",
                                  !.statistics = <<total_urls, total_clicks,
                                                   average_clicks(total_clicks, total_urls)>>])]
    /\ lock' = 0
    /\ UNCHANGED <<heap, mappings, reverse_mappings, now, nreq,
                   clicks302, issued, overlapped, stored, increments, everCleared>>
    /\ UNCHANGED uservars

\* ------------------------------------------------- url_store.clear()
\* models.py lines 134-135: take the lock, self._mappings.clear()
ClearMappings(t) ==
    /\ th[t].pc = "ready"
    /\ nreq < MaxRequests
    /\ CanAcquire(t)
    /\ lock' = t
    /\ mappings' = [c \in Codes |-> NoObj]
    /\ th' = [th EXCEPT ![t] = [Ready EXCEPT !.kind = "clear", !.pc = "clear_reverse"]]
    /\ heap' = Collect(heap, mappings', th')
    /\ nreq' = nreq + 1
    /\ everCleared' = TRUE
    /\ clicks302' = [c \in Codes |-> 0]
    /\ issued' = [u \in URLs |-> {}]
    /\ overlapped' = [u \in URLs |-> FALSE]
    /\ stored' = [c \in Codes |-> 0]
    /\ increments' = [c \in Codes |-> 0]
    /\ UNCHANGED <<reverse_mappings, now>>
    /\ UNCHANGED uservars

\* models.py line 136: self._reverse_mappings.clear(), release the lock
ClearReverse(t) ==
    /\ th[t].pc = "clear_reverse"
    /\ reverse_mappings' = ReverseCleared(reverse_mappings)
    /\ lock' = 0
    /\ th' = [th EXCEPT ![t] = Respond(t, NoResp)]
    /\ UNCHANGED <<heap, mappings, now, nreq, clicks302, issued, overlapped, stored, increments, everCleared>>
    /\ UNCHANGED uservars

\* ===================================================== user-management service
\* src/messy-migration: the users table of the SQLite database and the
\* handlers of routes/users.py and routes/auth.py. Every statement run through
\* db_manager.get_cursor() is one transaction, so each is one step.

\* strings clients send as 'email': stored forms, one with capitals and
\* surrounding blanks, and one that is no address
RawEmails == {"john@example.com", "jane@example.com", "new@example.com",
              " John@Example.com ", "not-an-email"}

\* email.strip().lower()
strip_lower(email) == IF email = " John@Example.com " THEN "john@example.com" ELSE email

\* validate_email(email): (is_valid, message)
validate_email(email) ==
    IF email \in {"john@example.com", "jane@example.com", "new@example.com"}
    THEN [is_valid |-> TRUE, message |-> "Email is valid"]
    ELSE [is_valid |-> FALSE, message |-> "Invalid email"]

Emails == {strip_lower(e) : e \in {x \in RawEmails : validate_email(strip_lower(x)).is_valid}}

\* values clients send as 'password': strings and a JSON number
Passwords == {[str |-> TRUE, text |-> "SecurePass123"],
              [str |-> TRUE, text |-> "StrongPass456"],
              [str |-> TRUE, text |-> "short"],
              [str |-> FALSE, text |-> "12345678"]}

\* validate_password_strength(password) for a string: at least
\* PASSWORD_MIN_LENGTH characters, a letter and a digit
validate_password_strength(password) == password.text # "short"

\* generate_password_hash(password): a value that is not the password and
\* that check_password_hash matches with that password only
hash_password(password) == <<"pbkdf2", password.text>>

\* check_password_hash(password_hash, password), for a string password
verify_password(password_hash, password) == password_hash = hash_password(password)

\* names clients send: one valid, one too short
Names == {"Test User", "X"}
validate_name(name) == name # "X"

\* the rows init_database() inserts (the first two of its sample users)
sample_users == <<[email |-> "john@example.com", password |-> [str |-> TRUE, text |-> "SecurePass123"]],
                  [email |-> "jane@example.com", password |-> [str |-> TRUE, text |-> "StrongPass456"]]>>

UserIds == 1..MaxUserId
NoRow == [email |-> "", password |-> <<>>]
NoUser == [id |-> 0, email |-> ""]

UNoResp == [status |-> 0, message |-> "", error_code |-> "", data |-> NoUser]

NoPassword == [str |-> TRUE, text |-> ""]

UReady == [pc |-> "ready", kind |-> "", id |-> 0, name |-> "", email |-> "", password |-> <<>>,
           given |-> NoPassword, resp |-> UNoResp]

UserInit ==
    /\ users = [i \in UserIds |->
                  IF i \in DOMAIN sample_users
                  THEN [email |-> sample_users[i].email,
                        password |-> hash_password(sample_users[i].password)]
                  ELSE NoRow]
    /\ next_id = Len(sample_users) + 1
    /\ uth = [t \in Threads |-> UReady]
    /\ ureq = 0

\* utils/responses.py
error_response(message, status_code, error_code) ==
    [UNoResp EXCEPT !.status = status_code, !.message = message, !.error_code = error_code]

success_response(data, message, status_code) ==
    [UNoResp EXCEPT !.status = status_code, !.message = message, !.data = data]

unauthorized_response(message) == error_response(message, 401, "UNAUTHORIZED")

not_found_response == error_response("User not found", 404, "NOT_FOUND")

validation_error_response == error_response("Validation failed", 422, "VALIDATION_ERROR")

\* the handler of thread t returns response r
UAnswer(t, r) == [UReady EXCEPT !.kind = uth[t].kind, !.name = uth[t].name, !.email = uth[t].email,
                                !.given = uth[t].given, !.resp = r]

\* ids left for the INSERTs already on their way (the table holds MaxUserId rows)
IdsLeft == next_id + Cardinality({o \in Threads : uth[o].pc = "insert"}) <= MaxUserId

\* SELECT * FROM users WHERE email = ?: the id of the row, 0 when there is none
get_by_email(email) ==
    IF \E i \in UserIds : users[i].email = email
    THEN CHOOSE i \in UserIds : users[i].email = email
    ELSE 0

\* SELECT * FROM users WHERE id = ?
get_by_id(user_id) == IF users[user_id] # NoRow THEN user_id ELSE 0

\* faulty variant: a table created without UNIQUE on email
NoConstraint(email, user_id) == FALSE

\* email TEXT NOT NULL UNIQUE: writing `email` into row user_id (a new row or
\* an updated one) violates the constraint
UniqueViolated(email, user_id) ==
    \E i \in UserIds \ {user_id} : users[i].email = email

\* ------------------------------------------------- POST /api/users
\* User.create lines 22-40 (422) and the TypeError of len() on a password
\* that is no string, caught by routes/users.py lines 79-80 (500)
CreateReject(t, name, email, password) ==
    /\ uth[t].pc = "ready"
    /\ ureq < MaxUserRequests
    /\ \/ ~password.str
       \/ ~validate_name(name)
       \/ ~validate_email(strip_lower(email)).is_valid
       \/ ~validate_password_strength(password)
    /\ uth' = [uth EXCEPT ![t] =
                 [UReady EXCEPT !.kind = "create", !.name = name,
                    !.email = strip_lower(email), !.given = password,
                    !.resp = IF ~password.str
                             THEN error_response("Failed to create user", 500, "")
                             ELSE validation_error_response]]
    /\ ureq' = ureq + 1
    /\ UNCHANGED <<users, next_id>>
    /\ UNCHANGED vars

\* User.create lines 42-44: get_by_email(email), 409 when it finds a row
CreateLookup(t, name, email, password) ==
    /\ uth[t].pc = "ready"
    /\ ureq < MaxUserRequests
    /\ IdsLeft
    /\ password.str /\ validate_name(name)
    /\ validate_email(strip_lower(email)).is_valid
    /\ validate_password_strength(password)
    /\ uth' = [uth EXCEPT ![t] =
                 IF get_by_email(strip_lower(email)) # 0
                 THEN [UReady EXCEPT !.kind = "create", !.name = name,
                          !.email = strip_lower(email), !.given = password,
                          !.resp = error_response("Email already exists", 409, "")]
                 ELSE [UReady EXCEPT !.kind = "create", !.name = name,
                          !.email = strip_lower(email), !.given = password,
                          !.password = hash_password(password), !.pc = "insert"]]
    /\ ureq' = ureq + 1
    /\ UNCHANGED <<users, next_id>>
    /\ UNCHANGED vars

\* User.create lines 49-61: INSERT INTO users; sqlite3.IntegrityError of the
\* UNIQUE constraint is answered 500, the new row 201
CreateInsert(t) ==
    /\ uth[t].pc = "insert"
    /\ IF UniqueViolated(uth[t].email, next_id)
       THEN /\ uth' = [uth EXCEPT ![t] = UAnswer(t, error_response("Database error", 500, ""))]
            /\ UNCHANGED <<users, next_id>>
       ELSE /\ users' = [users EXCEPT ![next_id] =
                           [email |-> uth[t].email, password |-> uth[t].password]]
            /\ next_id' = next_id + 1
            /\ uth' = [uth EXCEPT ![t] = UAnswer(t,
                          success_response([id |-> next_id, email |-> uth[t].email],
                                           "User created successfully", 201))]
    /\ UNCHANGED ureq
    /\ UNCHANGED vars

\* ------------------------------------------------- PUT /api/user/<id>
\* routes/users.py lines 101-103: get_by_id, 404 when there is no such user
UpdateGet(t, user_id, email) ==
    /\ uth[t].pc = "ready"
    /\ ureq < MaxUserRequests
    /\ uth' = [uth EXCEPT ![t] =
                 IF get_by_id(user_id) = 0
                 THEN [UReady EXCEPT !.kind = "update", !.email = strip_lower(email),
                          !.resp = not_found_response]
                 ELSE [UReady EXCEPT !.kind = "update", !.email = strip_lower(email),
                          !.id = user_id, !.pc = "update_lookup"]]
    /\ ureq' = ureq + 1
    /\ UNCHANGED <<users, next_id>>
    /\ UNCHANGED vars

\* User.update lines 137-148: validate_email and get_by_email; an address
\* that is invalid or belongs to another user is answered 422
UpdateLookup(t) ==
    /\ uth[t].pc = "update_lookup"
    /\ LET existing_user == get_by_email(uth[t].email)
           errors == \/ ~validate_email(uth[t].email).is_valid
                     \/ existing_user # 0 /\ existing_user # uth[t].id
       IN uth' = [uth EXCEPT ![t] =
                    IF errors THEN UAnswer(t, validation_error_response)
                    ELSE [uth[t] EXCEPT !.pc = "update_write"]]
    /\ UNCHANGED <<users, next_id, ureq>>
    /\ UNCHANGED vars

\* User.update lines 150-176: UPDATE users SET email = ? WHERE id = ?; the
\* IntegrityError is answered 500, rowcount 0 (the row was deleted) 400
UpdateWrite(t) ==
    /\ uth[t].pc = "update_write"
    /\ IF users[uth[t].id] = NoRow
       THEN /\ uth' = [uth EXCEPT ![t] = UAnswer(t, error_response("No changes were made", 400, ""))]
            /\ UNCHANGED users
       ELSE IF UniqueViolated(uth[t].email, uth[t].id)
       THEN /\ uth' = [uth EXCEPT ![t] = UAnswer(t, error_response("Database error", 500, ""))]
            /\ UNCHANGED users
       ELSE /\ users' = [users EXCEPT ![uth[t].id].email = uth[t].email]
            /\ uth' = [uth EXCEPT ![t] = UAnswer(t,
                          success_response([id |-> uth[t].id, email |-> uth[t].email],
                                           "User updated successfully", 200))]
    /\ UNCHANGED <<next_id, ureq>>
    /\ UNCHANGED vars

\* ------------------------------------------------- DELETE /api/user/<id>
\* routes/users.py lines 141-143
DeleteGet(t, user_id) ==
    /\ uth[t].pc = "ready"
    /\ ureq < MaxUserRequests
    /\ uth' = [uth EXCEPT ![t] =
                 IF get_by_id(user_id) = 0
                 THEN [UReady EXCEPT !.kind = "delete", !.resp = not_found_response]
                 ELSE [UReady EXCEPT !.kind = "delete", !.id = user_id, !.pc = "delete"]]
    /\ ureq' = ureq + 1
    /\ UNCHANGED <<users, next_id>>
    /\ UNCHANGED vars

\* User.delete lines 183-186 and routes/users.py lines 146-154
DeleteRow(t) ==
    /\ uth[t].pc = "delete"
    /\ users' = [users EXCEPT ![uth[t].id] = NoRow]
    /\ uth' = [uth EXCEPT ![t] = UAnswer(t,
                  IF users[uth[t].id] # NoRow
                  THEN success_response(NoUser, "User deleted successfully", 200)
                  ELSE error_response("Failed to delete user", 500, ""))]
    /\ UNCHANGED <<next_id, ureq>>
    /\ UNCHANGED vars

\* ------------------------------------------------- POST /api/login
\* routes/auth.py lines 30-50; check_password_hash raises on a password that
\* is no string, which lines 54-55 answer 500
Login(t, email, password) ==
    /\ uth[t].pc = "ready"
    /\ ureq < MaxUserRequests
    /\ LET user == get_by_email(strip_lower(email))
           r == IF user = 0 THEN unauthorized_response("Invalid email or password")
                ELSE IF ~password.str THEN error_response("Login failed", 500, "")
                ELSE IF ~verify_password(users[user].password, password)
                THEN unauthorized_response("Invalid email or password")
                ELSE success_response([id |-> user, email |-> users[user].email],
                                      "Login successful", 200)
       IN uth' = [uth EXCEPT ![t] =
                    [UReady EXCEPT !.kind = "login", !.email = strip_lower(email),
                                   !.given = password, !.resp = r]]
    /\ ureq' = ureq + 1
    /\ UNCHANGED <<users, next_id>>
    /\ UNCHANGED vars

UserNext ==
    \E t \in Threads :
        \/ \E name \in Names, email \in RawEmails, password \in Passwords :
              CreateReject(t, name, email, password)
        \/ \E name \in Names, email \in RawEmails, password \in Passwords :
              CreateLookup(t, name, email, password)
        \/ CreateInsert(t)
        \/ \E user_id \in UserIds, email \in RawEmails : UpdateGet(t, user_id, email)
        \/ UpdateLookup(t)
        \/ UpdateWrite(t)
        \/ \E user_id \in UserIds : DeleteGet(t, user_id)
        \/ DeleteRow(t)
        \/ \E email \in RawEmails, password \in Passwords : Login(t, email, password)

\* ============================================================ specifications
Next ==
    \E t \in Threads :
        \/ \E body \in Bodies : ShortenReject(t, body)
        \/ \E body \in Bodies : ShortenRaise(t, body)
        \/ \E body \in Bodies : ShortenFind(t, body)
        \/ ShortenExisting(t)
        \/ ShortenGenerate(t)
        \/ ShortenStore(t)
        \/ ShortenStoreReverse(t)
        \/ \E short_code \in PathCodes : RedirectReject(t, short_code)
        \/ \E short_code \in PathCodes : RedirectGet(t, short_code)
        \/ RedirectIncrementRead(t)
        \/ RedirectIncrementWrite(t)
        \/ RedirectRespond(t)
        \/ \E short_code \in PathCodes : StatsReject(t, short_code)
        \/ \E short_code \in PathCodes : StatsGet(t, short_code)
        \/ StatsRespond(t)
        \/ HealthLen(t)
        \/ HealthSum(t)
        \/ ClearMappings(t)
        \/ ClearReverse(t)

\* both programs started, no request served yet
SysInit == Init /\ UserInit

\* the URL shortener serving requests (the user service at rest)
Spec == SysInit /\ [][Next]_vars

\* the user-management service serving requests (the URL shortener at rest)
UserSpec == SysInit /\ [][UserNext]_uservars

\* the steps by which thread t goes on with the request it is serving: the
\* handler's statements after its first, store calls included
Proceed(t) ==
    \/ ShortenExisting(t)
    \/ ShortenGenerate(t)
    \/ ShortenStore(t)
    \/ ShortenStoreReverse(t)
    \/ RedirectIncrementRead(t)
    \/ RedirectIncrementWrite(t)
    \/ RedirectRespond(t)
    \/ StatsRespond(t)
    \/ HealthSum(t)
    \/ ClearReverse(t)

\* the URL shortener under fair scheduling: a thread that is inside a lock
\* block runs on, and a thread that waits for the lock gets it when the lock
\* is free again and again; no request has to arrive
FairSpec == Spec /\ \A t \in Threads : SF_vars(Proceed(t))

\* ============================================================== properties
\* the codes whose record carries original_url u
RecordsFor(u) == {c \in Codes : CodeTaken(mappings, c) /\ heap[mappings[c]].original_url = u}

Shortened(t) == th[t].pc = "ready" /\ th[t].kind = "shorten"

StoreRefused(t) == Shortened(t) /\ th[t].resp.error = "Failed to store URL mapping"

\* C1: of the store_mapping calls made with one short code on a store that
\* does not hold it, exactly one returns a record; every other call raises
\* ValueError: a code never has two successful inserts, a code with a
\* successful insert is in the forward index, and a refused insert was
\* refused for a code that had its one successful insert.
C1_ExactlyOneInsertPerCode ==
    ~everCleared =>
        /\ \A c \in Codes : stored[c] <= 1 /\ (stored[c] = 1 <=> CodeTaken(mappings, c))
        /\ \A t \in Threads : StoreRefused(t) => stored[th[t].resp.short_code] = 1

\* C1 witness: two requests raced with the same candidate; one got the
\* record (201), the other the ValueError
C1_Witness ==
    /\ ~everCleared
    /\ \E t, o \in Threads :
         /\ t # o
         /\ Shortened(t) /\ th[t].resp.status = 201
         /\ StoreRefused(o) /\ th[o].resp.short_code = th[t].resp.short_code

\* C2: a given original URL is the original_url of at most one record of the
\* forward index, in every reachable state
C2_OneRecordPerURL ==
    \A u \in URLs : Cardinality(RecordsFor(u)) <= 1

\* C3: outside a store critical section, every record stored under code c
\* has short_code c and the reverse index maps its original_url back to c
C3_IndicesAgree ==
    lock = 0 =>
        \A c \in Codes : CodeTaken(mappings, c) =>
            /\ heap[mappings[c]].short_code = c
            /\ reverse_mappings[heap[mappings[c]].original_url] = c

\* C4: a shorten request for a URL that no other shorten request for the
\* same URL overlapped, with no clear(): when no earlier request was answered
\* with a code for the URL, an answer with a code is the 201; when one was,
\* the answer is 200 'URL was already shortened' with that same code, and
\* the store holds exactly one record for the URL
C4_SecondShortenReturnsSameCode ==
    \A t \in Threads :
        (Shortened(t) /\ th[t].url # NoURL /\ ~everCleared /\ ~overlapped[th[t].url]) =>
            /\ (th[t].seen = {} /\ th[t].resp.status \in {200, 201}) => th[t].resp.status = 201
            /\ th[t].seen # {} =>
                 /\ th[t].resp.status = 200
                 /\ th[t].resp.message = "URL was already shortened"
                 /\ th[t].seen = {th[t].resp.short_code}
                 /\ RecordsFor(th[t].url) = {th[t].resp.short_code}

\* C4 witness: the second of two shorten requests in sequence was answered
C4_Witness ==
    \E t \in Threads :
        /\ Shortened(t) /\ th[t].url # NoURL /\ ~everCleared /\ ~overlapped[th[t].url]
        /\ th[t].seen # {}
        /\ th[t].resp.status = 200

\* C5: the ValueError of store_mapping (CodeExists) is never surfaced to the
\* client as an error response
C5_CodeExistsNeverSurfaced ==
    \A t \in Threads : ~StoreRefused(t)

\* C6: with no clear(), every increment_click_count call on an existing code
\* returns True and none is lost: a record's click_count is the number of
\* increment calls that returned for its code, and a click_count a handler
\* read at get_mapping is never above the current one
C6_NoLostIncrement ==
    ~everCleared =>
        /\ \A c \in Codes : CodeTaken(mappings, c) =>
               heap[mappings[c]].click_count = increments[c]
        /\ \A t \in Threads :
               /\ th[t].pc = "redirect" => th[t].ret = TRUE
               /\ th[t].mapping # NoObj => th[t].snapshot <= heap[th[t].mapping].click_count

\* C6 witness: two increment calls for one code overlapped (the second was
\* waiting while the first held the lock) and both have returned
C6_Witness ==
    /\ ~everCleared
    /\ \E c \in Codes : CodeTaken(mappings, c) /\ increments[c] = 2
    /\ \A t \in Threads : th[t].pc = "redirect" /\ th[t].ret = TRUE /\ th[t].snapshot = 0

\* C7: the record get_mapping returned is a snapshot: what a handler reads
\* from it stays what it was at the get_mapping call
C7_LookupIsSnapshot ==
    \A t \in Threads :
        th[t].mapping # NoObj /\ th[t].kind \in {"redirect", "stats"} =>
            heap[th[t].mapping].click_count = th[t].snapshot

SameURLTwice(t, o) ==
    /\ t # o
    /\ Shortened(t) /\ Shortened(o)
    /\ th[t].resp.status = 201 /\ th[o].resp.status = 201
    /\ th[t].resp.original_url = th[o].resp.original_url
    /\ th[t].resp.short_code # th[o].resp.short_code

\* C8: two shorten requests for one URL that were both answered 201 with
\* different codes leave two records for the URL in the forward index, and
\* two records for one URL, once there, stay: no step other than clear()
\* removes a record of a URL that has two of them (the state itself, reached
\* by two overlapping shorten requests, is C8_Witness)
C8_DuplicateIsNotReconciled ==
    /\ [](~everCleared =>
            \A t, o \in Threads : SameURLTwice(t, o) =>
                {th[t].resp.short_code, th[o].resp.short_code}
                    \subseteq RecordsFor(th[t].resp.original_url))
    /\ [][\A u \in URLs :
            (Cardinality(RecordsFor(u)) >= 2 /\ (\E c \in Codes : CodeTaken(mappings', c)))
                => RecordsFor(u) \subseteq RecordsFor(u)']_vars

\* C8 witness: two shorten requests for the same URL were both answered 201
\* with different codes and the forward index holds both records
C8_Witness ==
    \E t, o \in Threads :
        /\ SameURLTwice(t, o)
        /\ RecordsFor(th[t].resp.original_url) = {th[t].resp.short_code, th[o].resp.short_code}
        /\ lock = 0

GenerationFailed(r) == r.error = "Failed to generate unique short code. Please try again."

\* C9: a shorten request draws at most max_attempts candidates; a pass of the
\* loop changes neither index nor any record; when every code exists the
\* last pass answers 500, and the request answers the generation failure
\* only from the last pass, never after calling store_mapping
C9_GenerationCapped ==
    [][\A t \in Threads :
          (th[t].pc = "generate" /\ th'[t] # th[t]) =>
              /\ th[t].attempt < max_attempts
              /\ UNCHANGED <<heap, mappings, reverse_mappings>>
              /\ ((\A c \in generate_short_code : exists(c)) /\ th[t].attempt = max_attempts - 1)
                    => (th'[t].pc = "ready" /\ GenerationFailed(th'[t].resp))
              /\ th'[t].pc = "ready" =>
                    /\ th[t].attempt = max_attempts - 1
                    /\ th'[t].resp.status = 500
                    /\ GenerationFailed(th'[t].resp)
                    /\ th'[t].resp.attempts = max_attempts
                    /\ \E c \in generate_short_code : exists(c)]_vars

\* C9 witness: a request was answered with the generation failure
C9_Witness ==
    \E t \in Threads : Shortened(t) /\ GenerationFailed(th[t].resp) /\ th[t].resp.status = 500

RedirectInFlight(c) ==
    \E o \in Threads : th[o].kind = "redirect" /\ InFlight(o) /\ th[o].code = c

Created(t) == Shortened(t) /\ th[t].resp.status = 201

\* C11: the codes answered with 201 for distinct normalized URLs are pairwise
\* distinct: no short code has been handed out (by a 201, or by the 200 that
\* repeats it) for two different URLs, neither in the answers the threads
\* hold nor in the record of the answers given so far.
C11_DistinctURLsGetDistinctCodes ==
    ~everCleared =>
        /\ \A u1 \in URLs, u2 \in URLs : u1 # u2 => issued[u1] \cap issued[u2] = {}
        /\ \A t \in Threads, o \in Threads :
              Created(t) /\ Created(o) /\ th[t].resp.original_url # th[o].resp.original_url
                 => th[t].resp.short_code # th[o].resp.short_code

\* C11 witness: both threads hold a 201 and the two URLs differ
C11_Witness ==
    /\ ~everCleared
    /\ \E t \in Threads, o \in Threads :
          /\ Created(t) /\ Created(o)
          /\ th[t].resp.original_url # th[o].resp.original_url
          /\ th[t].resp.short_code \in issued[th[t].resp.original_url]
          /\ th[o].resp.short_code \in issued[th[o].resp.original_url]

\* ---------------------------------------------------------------- C12
\* the forward index holds the code and the reverse index lacks its URL
HalfInserted(c) ==
    /\ CodeTaken(mappings, c)
    /\ reverse_mappings[heap[mappings[c]].original_url] = None

\* C12: store_mapping is all-or-nothing. A call that raises ValueError (code
\* exists) leaves the forward index, the reverse index and every record as
\* they were; a successful call ends with the code in the forward index and
\* the URL in the reverse index, and the state between its two writes exists
\* only while the inserting thread holds the lock, so no other thread's
\* store operation reads it.
C12_InsertAllOrNothing ==
    /\ [](\A c \in Codes : HalfInserted(c) =>
             /\ lock \in Threads
             /\ th[lock].pc = "store_reverse" /\ th[lock].code = c)
    /\ [][\A t \in Threads :
            /\ (th[t].pc = "store" /\ th'[t].pc = "ready")
                  => /\ th'[t].resp.error = "Failed to store URL mapping"
                     /\ UNCHANGED <<heap, mappings, reverse_mappings, lock>>
            /\ (th[t].pc = "store_reverse" /\ th'[t] # th[t])
                  => /\ th'[t].resp.status = 201
                     /\ CodeTaken(mappings', th[t].code)
                     /\ heap'[mappings'[th[t].code]].original_url = th[t].url
                     /\ reverse_mappings'[th[t].url] = th[t].code
                     /\ lock' = 0]_vars

\* C12 witness: one thread is between the two writes of its store_mapping
\* while the other holds the 500 of a refused insert of a code that the
\* store still holds
C12_Witness ==
    \E t \in Threads, o \in Threads, c \in Codes :
        /\ HalfInserted(c) /\ lock = t
        /\ StoreRefused(o) /\ th[o].resp.short_code # c
        /\ CodeTaken(mappings, th[o].resp.short_code)

\* ---------------------------------------------------------------- C13
\* C13: increment_click_count called with a code that is not in the forward
\* index returns False and changes nothing: both indices, every record and
\* the lock are as before the call; and it returns False in no other case.
C13_IncrementMissingIsNoOp ==
    [][\A t \in Threads :
         /\ (th[t].pc = "increment" /\ ~CodeTaken(mappings, th[t].code) /\ th'[t] # th[t])
               => /\ th'[t].pc = "redirect" /\ th'[t].ret = FALSE
                  /\ UNCHANGED <<heap, mappings, reverse_mappings, lock>>
         /\ (th[t].pc \in {"increment", "increment_write"} /\ th'[t].pc = "redirect"
               /\ th'[t].ret = FALSE)
               => ~CodeTaken(mappings, th[t].code)]_vars

\* C13 witness: a redirect found its record, the store was cleared, and the
\* increment that followed returned False
C13_Witness ==
    \E t \in Threads :
        /\ th[t].pc = "redirect" /\ th[t].ret = FALSE
        /\ ~CodeTaken(mappings, th[t].code)
        /\ th[t].mapping # NoObj

\* ---------------------------------------------------------------- C14
\* thread t completes a successful increment_click_count on object obj
IncrementsObj(t, obj) ==
    /\ th[t].pc = "increment_write" /\ th[t].target = obj
    /\ th'[t].pc = "redirect"

\* C14: click counts are non-negative and change only by counted increments.
\* Every record's click_count is at least 0 and starts at 0; a step leaves
\* the click_count of every record that stays in the forward index as it
\* was, or raises it by exactly 1, and it raises it exactly when the step is
\* a successful increment_click_count on that code. No step other than
\* Clear lowers or resets it.
C14_ClicksOnlyGrowByOne ==
    /\ [](\A c \in Codes : CodeTaken(mappings, c) => heap[mappings[c]].click_count >= 0)
    /\ [][\A c \in Codes :
            /\ (CodeTaken(mappings, c) /\ mappings'[c] = mappings[c])
                  => LET before == heap[mappings[c]].click_count
                         after == heap'[mappings[c]].click_count
                     IN IF \E t \in Threads : IncrementsObj(t, mappings[c])
                        THEN after = before + 1
                        ELSE after = before
            /\ (~CodeTaken(mappings, c) /\ CodeTaken(mappings', c))
                  => heap'[mappings'[c]].click_count = 0
            /\ (CodeTaken(mappings, c) /\ mappings'[c] # mappings[c])
                  => \E t \in Threads : th[t].pc = "ready" /\ th'[t].pc = "clear_reverse"]_vars

\* C14 witness: a record has been incremented twice, 0 -> 1 -> 2
C14_Witness ==
    \E c \in Codes :
        /\ CodeTaken(mappings, c)
        /\ heap[mappings[c]].click_count = 2
        /\ ~everCleared /\ increments[c] = 2

\* ---------------------------------------------------------------- C15
\* the step is the first write of clear()
ClearStep == \E t \in Threads : th[t].pc = "ready" /\ th'[t].pc = "clear_reverse"

\* C15: records are immutable apart from the click counter. Once a code is
\* in the forward index, every step other than a Clear leaves it there with
\* the same record object, the same short_code, original_url and created_at:
\* nothing overwrites it, gives the code to another URL or deletes it alone.
C15_RecordsAreImmutable ==
    [][\A c \in Codes :
         (CodeTaken(mappings, c) /\ ~ClearStep)
            => /\ mappings'[c] = mappings[c]
               /\ heap'[mappings[c]].short_code = c
               /\ heap'[mappings[c]].original_url = heap[mappings[c]].original_url
               /\ heap'[mappings[c]].created_at = heap[mappings[c]].created_at]_vars

\* C15 witness: a record that has been clicked is still there after a second
\* insert with its code was attempted and refused
C15_Witness ==
    \E o \in Threads :
        /\ StoreRefused(o)
        /\ CodeTaken(mappings, th[o].resp.short_code)
        /\ heap[mappings[th[o].resp.short_code]].click_count >= 1
        /\ heap[mappings[th[o].resp.short_code]].original_url \in URLs

\* ---------------------------------------------------------------- C16
RECURSIVE SumOver(_, _)
\* the sum of f[x] over the x in S
SumOver(f, S) ==
    IF S = {} THEN 0
    ELSE LET x == CHOOSE y \in S : TRUE IN f[x] + SumOver(f, S \ {x})

\* thread t returns from get_stats in this step
StatsReturned(t) == th[t].pc = "get_stats" /\ th'[t].pc = "ready"

\* C16: get_stats returns total_urls equal to the number of records in the
\* forward index (the number of successful inserts), total_clicks equal to
\* the sum of their click counts (the number of successful increments), and
\* average_clicks equal to total_clicks / total_urls when total_urls > 0 and
\* 0 otherwise; on an empty store it returns 0, 0, 0 and never divides by
\* zero.
C16_StatsAreTotals ==
    [][\A t \in Threads : StatsReturned(t) =>
         LET total_urls == th'[t].resp.statistics[1]
             total_clicks == th'[t].resp.statistics[2]
             average_clicks_ == th'[t].resp.statistics[3]
         IN /\ total_urls = Cardinality({c \in Codes : CodeTaken(mappings, c)})
            /\ ~everCleared => /\ total_urls = SumOver(stored, Codes)
                               /\ total_clicks = SumOver(increments, Codes)
            /\ average_clicks_[2] # 0
            /\ IF total_urls > 0
               THEN average_clicks_[1] * total_urls = total_clicks * average_clicks_[2]
               ELSE total_clicks = 0 /\ average_clicks_ = <<0, 1>>]_vars

\* C16 witness: get_stats has answered 2 URLs, 1 click, average 1/2
C16_Witness ==
    \E t \in Threads :
        /\ th[t].pc = "ready" /\ th[t].kind = "health"
        /\ th[t].resp.statistics = <<2, 1, <<1, 2>>>>

\* ---------------------------------------------------------------- C17
ForwardEmpty == \A c \in Codes : ~CodeTaken(mappings, c)

ReverseEmpty == \A u \in URLs : reverse_mappings[u] = None

\* C17: clear() empties both indices as one atomic step. The state with the
\* forward index emptied and the reverse index not exists only while the
\* clearing thread holds the lock, so no other thread's store operation
\* reads it; clear() returns with both indices empty whatever they held;
\* the forward index stays empty until an insert; and a get_stats that
\* returns while the store is still empty after a clear returns 0, 0, 0.
C17_ClearIsAtomic ==
    /\ []((ForwardEmpty /\ ~ReverseEmpty) =>
             lock \in Threads /\ th[lock].pc = "clear_reverse")
    /\ [][\A t \in Threads :
            /\ (th[t].pc = "clear_reverse" /\ th'[t] # th[t])
                  => ForwardEmpty' /\ ReverseEmpty' /\ lock' = 0
            /\ (ForwardEmpty /\ ~ForwardEmpty')
                  => \E o \in Threads : th[o].pc = "store" /\ th'[o].pc = "store_reverse"
            /\ (StatsReturned(t) /\ everCleared /\ ForwardEmpty)
                  => th'[t].resp.statistics = <<0, 0, <<0, 1>>>>]_vars

\* C17 witness: a store that held a record (another request still holds it)
\* was cleared, and the get_stats after the clear answered 0, 0, 0
C17_Witness ==
    \E t \in Threads, o \in Threads :
        /\ everCleared /\ ForwardEmpty /\ ReverseEmpty /\ lock = 0
        /\ th[t].pc = "ready" /\ th[t].kind = "health" /\ th[t].resp.status = 200
        /\ th[t].resp.statistics = <<0, 0, <<0, 1>>>>
        /\ th[o].mapping # NoObj /\ heap[th[o].mapping].click_count >= 0

\* ---------------------------------------------------------------- C18
\* the positions inside a `with self._lock` block of a store operation
LockedPcs == {"store_reverse", "increment_write", "get_stats", "clear_reverse"}

\* the positions from which the next step of a handler is a store operation
CallingPcs == {"get_existing", "generate", "store", "increment"}

\* a handler starts in this step and its first store operation is part of
\* it: the request was not answered for its format alone (400, 404, or the
\* 500 of a body that made the handler raise)
CallsFromReady(t) ==
    /\ th[t].pc = "ready"
    /\ ~(/\ th'[t].pc = "ready"
          /\ \/ th'[t].resp.status = 400
             \/ th'[t].kind = "shorten" /\ th'[t].resp.status = 500
             \/ th'[t].resp.error = "Invalid short code format. Must be 6 alphanumeric characters.")

\* C18: the store is mutually exclusive. A thread is inside a store
\* operation exactly when it holds the lock, so at most one thread is inside
\* a critical section at any time; a step changes an index or a click count
\* only if the lock is free or the stepping thread's before the step (the
\* thread takes it) and free or that thread's after it; and the lock is
\* released on every exit path: a thread that is not inside a store
\* operation, the one whose store_mapping raised ValueError included, does
\* not hold it.
C18_StoreIsMutuallyExclusive ==
    /\ [](/\ \A t \in Threads : (lock = t) <=> (th[t].pc \in LockedPcs)
          /\ Cardinality({t \in Threads : th[t].pc \in LockedPcs}) <= 1
          /\ lock \in Threads \cup {0})
    /\ [][\A t \in Threads :
            /\ (th'[t] # th[t] /\ (th[t].pc \in CallingPcs \/ CallsFromReady(t)))
                  => lock \in {0, t} /\ lock' \in {0, t}
            /\ (th'[t] # th[t] /\ <<mappings, reverse_mappings>>' # <<mappings, reverse_mappings>>)
                  => lock \in {0, t} /\ lock' \in {0, t}
            /\ (th'[t] # th[t] /\ th[t].pc \in LockedPcs)
                  => lock = t /\ lock' = 0
            /\ (th'[t] = th[t] /\ lock = t) => lock' = t]_vars

\* C18 witness: one thread is inside store_mapping holding the lock while
\* the other stands before a store operation and cannot enter it
C18_Witness ==
    \E t \in Threads, o \in Threads :
        /\ lock = t /\ th[t].pc = "store_reverse"
        /\ th[o].pc \in CallingPcs
        /\ ~CanAcquire(o)

\* ---------------------------------------------------------------- C19
\* the click counts of the stored codes, 0 for a code that is not stored
ClickCounts ==
    [c \in Codes |-> IF CodeTaken(mappings, c) THEN heap[mappings[c]].click_count ELSE 0]

\* C19: a get_stats result is a consistent snapshot. From the step in which
\* get_stats counts the records to the step in which it sums their clicks
\* and returns, no step (insert, increment or clear of another thread)
\* changes the forward index or a stored click count, so total_urls and
\* total_clicks describe the one store state at its return.
C19_StatsIsOneSnapshot ==
    [][\A t \in Threads :
         /\ th[t].pc = "get_stats"
               => /\ mappings' = mappings /\ ClickCounts' = ClickCounts
                  /\ th[t].tmp = Cardinality({c \in Codes : CodeTaken(mappings, c)})
         /\ StatsReturned(t)
               => /\ th'[t].resp.statistics[1] = Cardinality({c \in Codes : CodeTaken(mappings', c)})
                  /\ th'[t].resp.statistics[2] = SumOver(ClickCounts', Codes)]_vars

\* C19 witness: get_stats has counted one record and holds the lock while the
\* other thread stands before an insert or an increment
C19_Witness ==
    \E t \in Threads, o \in Threads :
        /\ th[t].pc = "get_stats" /\ th[t].tmp >= 1 /\ lock = t
        /\ th[o].pc \in {"store", "increment"}

\* ---------------------------------------------------------------- C20
\* thread t holds the 404 given for the format of the path parameter
FormatRejected(t) ==
    /\ th[t].pc = "ready" /\ th[t].kind \in {"redirect", "stats"}
    /\ th[t].resp.status = 404
    /\ th[t].resp.error = "Invalid short code format. Must be 6 alphanumeric characters."

\* C20: GET /<code> and GET /api/stats/<code> with a code that is not
\* exactly 6 alphanumeric characters answer 404 without calling a store
\* operation: such a request is answered in its first step with the format
\* error, never reaches a position that calls the store, needs no lock, and
\* leaves both indices, every record with its click count, and the lock as
\* they were; a code of 6 alphanumeric characters is never answered so.
C20_MalformedCodeTouchesNothing ==
    /\ [](\A t \in Threads : th[t].kind \in {"redirect", "stats"} =>
             (FormatRejected(t) <=>
                 (Len(th[t].code) # 6 \/ \E i \in DOMAIN th[t].code : th[t].code[i] \notin alphanumeric)))
    /\ [][\A t \in Threads :
            (th'[t] # th[t] /\ FormatRejected(t)')
                => UNCHANGED <<heap, mappings, reverse_mappings, lock,
                               clicks302, increments, stored>>]_vars

\* C20 witness: both endpoints have rejected a malformed code, one too short
\* and one with a hyphen, on a store that holds a clicked record
C20_Witness ==
    \E t \in Threads, o \in Threads, c \in Codes :
        /\ FormatRejected(t) /\ th[t].kind = "redirect" /\ Len(th[t].code) = 3
        /\ FormatRejected(o) /\ th[o].kind = "stats" /\ Len(th[o].code) = 6
        /\ CodeTaken(mappings, c) /\ heap[mappings[c]].click_count = 1

\* ---------------------------------------------------------------- C21
\* thread t holds the answer to a POST /api/shorten that got no normalized
\* URL: its body was not JSON, had no 'url', or its URL failed validation
NotValidated(t) == Shortened(t) /\ th[t].url = NoURL

\* C21: a POST /api/shorten whose body is not JSON, has no 'url' field, or
\* whose URL fails validation answers 400 (and never reaches the store).
\* Refuted: a body sent as application/json that does not parse, or that is
\* a JSON array, is answered 500.
C21_BadBodyAnswers400 ==
    \A t \in Threads : NotValidated(t) => th[t].resp.status = 400

\* ---------------------------------------------------------------- C22
\* thread t starts a GET /<code> or GET /api/stats/<code> in this step
LookupStarts(t) ==
    /\ th[t].pc = "ready" /\ th'[t] # th[t]
    /\ th'[t].kind \in {"redirect", "stats"}

\* C22: GET /<code> and GET /api/stats/<code> with a well-formed code that
\* is not in the store answer 404 "Short code not found" at once, create no
\* record and change no click count: heap, both indices and the lock are as
\* before; and that answer is given in no other case.
C22_UnknownCodeAnswers404 ==
    [][\A t \in Threads : LookupStarts(t) /\ is_valid_short_code(th'[t].code) =>
         LET NotFound == /\ th'[t].pc = "ready"
                         /\ th'[t].resp.status = 404
                         /\ th'[t].resp.error = "Short code not found"
         IN /\ NotFound <=> ~CodeTaken(mappings, th'[t].code)
            /\ NotFound => UNCHANGED <<heap, mappings, reverse_mappings, lock>>]_vars

\* C22 witness: with one code stored and clicked, a redirect and a stats
\* request for the other code both hold the 404
C22_Witness ==
    \E t \in Threads, o \in Threads, c \in Codes :
        /\ th[t].pc = "ready" /\ th[t].kind = "redirect"
        /\ th[o].pc = "ready" /\ th[o].kind = "stats"
        /\ th[t].resp.error = "Short code not found" /\ th[t].code = c
        /\ th[o].resp.error = "Short code not found" /\ th[o].code = c
        /\ ~CodeTaken(mappings, c)
        /\ \E d \in Codes : CodeTaken(mappings, d) /\ heap[mappings[d]].click_count = 1

\* ---------------------------------------------------------------- C23
\* the normalized URLs for which code c was answered by a 200 or a 201
IssuedFor(c) == {n \in URLs : c \in issued[n]}

\* C23: round trip. Once POST /api/shorten has answered 200 or 201 with
\* short_code c and normalized original_url n, and while no Clear has run,
\* every GET /c and GET /api/stats/c that starts finds the record of n, and
\* every 302 held for c has Location exactly n and every stats answer held
\* for c reports original_url n.
C23_RoundTrip ==
    /\ [](~everCleared =>
            \A t \in Threads, n \in URLs :
               (th[t].pc = "ready" /\ th[t].code \in Codes /\ n \in IssuedFor(th[t].code))
                  => /\ (th[t].kind = "redirect" /\ th[t].resp.status = 302)
                           => th[t].resp.location = n
                     /\ (th[t].kind = "stats" /\ th[t].resp.status = 200)
                           => th[t].resp.original_url = n /\ th[t].resp.short_code = th[t].code)
    /\ [][~everCleared' =>
            \A t \in Threads, n \in URLs :
               /\ (LookupStarts(t) /\ th'[t].code \in Codes /\ n \in IssuedFor(th'[t].code))
                     => /\ th'[t].pc \in {"increment", "stats"}
                        /\ heap[th'[t].mapping].original_url = n
               /\ (th[t].pc \in {"redirect", "stats"} /\ th'[t].pc = "ready"
                     /\ n \in IssuedFor(th[t].code))
                     => /\ th'[t].resp.status = IF th[t].pc = "redirect" THEN 302 ELSE 200
                        /\ (IF th[t].pc = "redirect" THEN th'[t].resp.location
                                                     ELSE th'[t].resp.original_url) = n]_vars

\* C23 witness: a code was answered for http://example.com, and a redirect
\* and a stats request for that code hold exactly that URL
C23_Witness ==
    \E t \in Threads, o \in Threads, c \in Codes :
        LET n == [scheme |-> "http://", host |-> "example.com"]
        IN /\ ~everCleared /\ c \in issued[n]
           /\ th[t].pc = "ready" /\ th[t].kind = "redirect" /\ th[t].code = c
           /\ th[t].resp.status = 302 /\ th[t].resp.location = n
           /\ th[o].pc = "ready" /\ th[o].kind = "stats" /\ th[o].code = c
           /\ th[o].resp.status = 200 /\ th[o].resp.original_url = n

\* ---------------------------------------------------------------- C24
\* thread t returns from a successful store_mapping in this step
StoreReturned(t) == th[t].pc = "store_reverse" /\ th'[t].pc = "ready"

\* C24: after a successful store_mapping(c, u), get_mapping(c) returns a
\* record with short_code c, original_url u and click_count 0, exists(c) is
\* True and url_already_shortened(u) returns c; and url_already_shortened of
\* a URL that has no record (never inserted, or inserted before a clear)
\* returns None, of a URL that has one the code of one of its records.
C24_StoreThenLookup ==
    /\ [][\A t \in Threads, c \in Codes, u \in URLs :
            (StoreReturned(t) /\ th[t].code = c /\ th[t].url = u)
               => /\ get_mapping(c)' # NoObj
                  /\ heap'[get_mapping(c)'] =
                        [original_url |-> u, short_code |-> c, click_count |-> 0,
                         created_at |-> heap[th[t].mapping].created_at]
                  /\ exists(c)'
                  /\ url_already_shortened(u)' = c]_vars
    /\ [](lock = 0 =>
            \A u \in URLs :
               IF RecordsFor(u) = {} THEN url_already_shortened(u) = None
               ELSE url_already_shortened(u) \in RecordsFor(u))

\* C24 witness: store_mapping has just returned for one URL; the other URL
\* was never inserted and its reverse lookup returns None
C24_Witness ==
    \E t \in Threads, u \in URLs :
        /\ Created(t) /\ ~everCleared /\ lock = 0
        /\ url_already_shortened(th[t].resp.original_url) = th[t].resp.short_code
        /\ exists(th[t].resp.short_code)
        /\ heap[get_mapping(th[t].resp.short_code)].click_count = 0
        /\ u # th[t].resp.original_url
        /\ issued[u] = {} /\ url_already_shortened(u) = None

\* ---------------------------------------------------------------- C25
\* thread t takes a step of get_mapping, exists, url_already_shortened or
\* get_stats, or of the stats and health handlers built on them
ReadStep(t) ==
    /\ th'[t] # th[t]
    /\ \/ th[t].pc \in {"get_existing", "generate", "stats", "get_stats"}
       \/ th[t].pc = "ready" /\ th'[t].kind \in {"shorten", "redirect", "stats", "health"}

\* C25: the read operations get_mapping, exists, url_already_shortened and
\* get_stats, and GET /api/stats/<code> and GET /api/health, leave the
\* forward index, the reverse index and every stored click count unchanged;
\* so a stored code that no redirect has incremented has click_count 0, and
\* every stats answer held for it reports 0, whatever number of stats and
\* health requests were served.
C25_ReadsChangeNothing ==
    /\ [][\A t \in Threads : ReadStep(t) =>
            /\ mappings' = mappings
            /\ reverse_mappings' = reverse_mappings
            /\ ClickCounts' = ClickCounts]_vars
    /\ [](~everCleared =>
            \A c \in Codes : (CodeTaken(mappings, c) /\ increments[c] = 0) =>
               /\ heap[mappings[c]].click_count = 0
               /\ \A t \in Threads :
                     (th[t].pc = "ready" /\ th[t].kind = "stats" /\ th[t].code = c
                        /\ th[t].resp.status = 200) => th[t].resp.click_count = 0)

\* C25 witness: four requests, among them stats and health answered for a
\* store that holds a record, which still has click_count 0
C25_Witness ==
    \E t \in Threads, o \in Threads, c \in Codes :
        /\ ~everCleared /\ nreq >= 4
        /\ th[t].pc = "ready" /\ th[t].kind = "stats" /\ th[t].code = c
        /\ th[t].resp.status = 200 /\ th[t].resp.click_count = 0
        /\ th[o].pc = "ready" /\ th[o].kind = "health" /\ th[o].resp.statistics[1] >= 1
        /\ CodeTaken(mappings, c) /\ heap[mappings[c]].click_count = 0

\* ---------------------------------------------------------------- C26
\* the ids of the rows whose email is e
RowsWith(e) == {i \in UserIds : users[i] # NoRow /\ users[i].email = e}

\* thread t holds the answer to a POST /api/users with the given status
CreateAnswered(t, status) ==
    uth[t].pc = "ready" /\ uth[t].kind = "create" /\ uth[t].resp.status = status

\* the body of the create request of thread t passes User.create's validation
BodyValid(u) ==
    /\ u.given.str /\ validate_name(u.name)
    /\ validate_email(u.email).is_valid /\ validate_password_strength(u.given)

LoginStep(t) == uth[t].pc = "ready" /\ uth'[t] # uth[t] /\ uth'[t].kind = "login"

\* C27: POST /api/login answers 200 only when a user with the given email
\* exists and the password verifies against that user's stored hash, and
\* every other login is answered alike, 401 "Invalid email or password",
\* whether the email is unknown or the password wrong for a known email.
\* Refuted: a password that is no string is answered 401 for an unknown
\* email and 500 for a known one.
C27_LoginRevealsNothing ==
    [][\A t \in Threads : LoginStep(t) =>
         LET rows == RowsWith(uth'[t].email)
             verified == /\ rows # {} /\ uth'[t].given.str
                         /\ \E i \in rows : verify_password(users[i].password, uth'[t].given)
         IN /\ uth'[t].resp.status = 200 <=> verified
            /\ ~verified => uth'[t].resp = unauthorized_response("Invalid email or password")]_uservars

\* ---------------------------------------------------------------- C28
\* every entry of the reverse index points at a record of the forward index
\* that carries the entry's URL
ReverseLive ==
    \A u \in URLs : reverse_mappings[u] # None =>
        /\ CodeTaken(mappings, reverse_mappings[u])
        /\ heap[mappings[reverse_mappings[u]]].original_url = u

\* clear() between its two statements, inside its `with self._lock` block
HalfCleared == lock \in Threads /\ th[lock].pc = "clear_reverse"

\* the code thread t got from url_already_shortened is in the forward index
\* with the request's URL
ExistingLive(t) ==
    /\ CodeTaken(mappings, th[t].code)
    /\ heap[mappings[th[t].code]].original_url = th[t].url

\* C28: every entry of the reverse index points at a live, matching record:
\* reverse[u] = c implies that c is in the forward index and that
\* forward[c].original_url = u, in every state but the one inside clear()'s
\* critical section, which no store operation reads. So the code returned
\* by url_already_shortened is live with the request's URL, stays so over
\* every step that is not a clear(), and get_mapping then finds it: the
\* 'already shortened' branch answers 200 with that code.
C28_ReverseEntriesAreLive ==
    /\ [](~HalfCleared => ReverseLive)
    /\ [][\A t \in Threads :
            /\ (th[t].pc = "ready" /\ th'[t].pc = "get_existing") => ExistingLive(t)'
            /\ (th[t].pc = "get_existing" /\ ExistingLive(t) /\ ~ClearStep)
                  => \/ th'[t].pc = "get_existing" /\ ExistingLive(t)'
                     \/ /\ th'[t].pc = "ready" /\ th'[t].resp.status = 200
                        /\ th'[t].resp.short_code = th[t].code
                        /\ th'[t].resp.original_url = th[t].url
                        /\ th'[t].resp.created_at = heap[mappings[th[t].code]].created_at]_vars

\* C28 witness: a URL with two records (a duplicate insert), its reverse
\* entry pointing at one of them, and a request answered 200 'URL was already
\* shortened' with the code of the reverse entry
C28_Witness ==
    \E t \in Threads, c \in Codes :
        /\ Shortened(t) /\ th[t].resp.status = 200
        /\ reverse_mappings[th[t].resp.original_url] = th[t].resp.short_code
        /\ c # th[t].resp.short_code /\ CodeTaken(mappings, c)
        /\ heap[mappings[c]].original_url = th[t].resp.original_url

\* ---------------------------------------------------------------- C29
\* thread t takes a step of a POST /api/shorten request
ShortenStep(t) == th'[t] # th[t] /\ th'[t].kind = "shorten"

\* the step leaves both indices and every stored record as they were
StoreUntouched ==
    /\ UNCHANGED <<mappings, reverse_mappings>>
    /\ \A c \in Codes : CodeTaken(mappings, c) => heap'[mappings[c]] = heap[mappings[c]]

\* the step adds the record (short_code, original_url, click_count 0) to the
\* forward index and changes nothing else of it
AddsRecord(short_code, original_url) ==
    /\ ~CodeTaken(mappings, short_code) /\ CodeTaken(mappings', short_code)
    /\ heap'[mappings'[short_code]].short_code = short_code
    /\ heap'[mappings'[short_code]].original_url = original_url
    /\ heap'[mappings'[short_code]].click_count = 0
    /\ \A c \in Codes \ {short_code} :
          /\ mappings'[c] = mappings[c]
          /\ CodeTaken(mappings, c) => heap'[mappings[c]] = heap[mappings[c]]

\* the step adds the entry original_url -> short_code to the reverse index,
\* which had none for the URL, and changes no other entry
AddsReverseEntry(short_code, original_url) ==
    /\ reverse_mappings[original_url] = None
    /\ reverse_mappings' = [reverse_mappings EXCEPT ![original_url] = short_code]

\* C29: the status of a POST /api/shorten response tells what the request
\* did to the store. A request answered 201 added exactly one record, the
\* returned short_code with the returned original_url and click_count 0, and
\* one reverse entry; a request answered 200, 400 or 500 added, changed and
\* removed nothing. Refuted: the 201 of a duplicate insert replaces the
\* URL's reverse entry instead of adding one.
C29_StatusTellsEffect ==
    [][\A t \in Threads : ShortenStep(t) =>
         /\ th'[t].pc = "store_reverse"
               => AddsRecord(th[t].code, th[t].url) /\ UNCHANGED reverse_mappings
         /\ th[t].pc = "store_reverse"
               => /\ th'[t].resp.status = 201
                  /\ th'[t].resp.short_code = th[t].code
                  /\ th'[t].resp.original_url = th[t].url
                  /\ AddsReverseEntry(th[t].code, th[t].url)
                  /\ UNCHANGED mappings
                  /\ \A c \in Codes : CodeTaken(mappings, c) => heap'[mappings[c]] = heap[mappings[c]]
         /\ (th[t].pc # "store_reverse" /\ th'[t].pc # "store_reverse")
               => StoreUntouched /\ th'[t].resp.status \in {0, 200, 400, 500}]_vars

\* ---------------------------------------------------------------- C30
\* thread t waits for the store lock, which another thread holds
WaitsForLock(t) == th[t].pc \in CallingPcs /\ lock \in Threads \ {t}

\* C30: under fair scheduling every store operation that asks for the lock
\* gets it and returns (a held lock is released, a waiting thread moves on),
\* the code generation loop makes at most max_attempts passes, and every
\* request in service is answered: no interleaving deadlocks on the lock or
\* loops forever.
C30_EveryRequestIsAnswered ==
    /\ [](\A t \in Threads : th[t].attempt < max_attempts)
    /\ \A t \in Threads :
          /\ (lock = t) ~> (lock = 0)
          /\ WaitsForLock(t) ~> ~WaitsForLock(t)
          /\ InFlight(t) ~> ~InFlight(t)

\* C30 witness: a request that has drawn taken codes in its loop waits for
\* the lock while the other thread is inside a store operation
C30_Witness ==
    \E t \in Threads :
        /\ WaitsForLock(t) /\ th[t].pc = "generate" /\ th[t].attempt > 0

====
